---- MODULE Spec2Model ----
(***************************************************************************)
(* Model of pypiserver_metrics_plugin: the Bottle plugin MetricsPlugin     *)
(* (plugin.py) and its MetricsCollector (collector.py).                    *)
(*                                                                         *)
(* Strings the code takes apart (request paths, file names, label values)  *)
(* are sequences of one-character strings.  Durations and clock readings   *)
(* are integers in milliseconds.  A counter or histogram is a function     *)
(* from the label tuples observed so far (its series) to the value.        *)
(* Each request is a thread of the host server walking through             *)
(*   before_request hook -> route handler -> after_request hook            *)
(* one library call at a time: prometheus_client takes a lock inside       *)
(* labels(), inc(), set() and observe(), so each such call is one step.    *)
(***************************************************************************)
EXTENDS Integers, Sequences, FiniteSets, TLC

VARIABLES
    plugin,     \* MetricsPlugin: metrics_endpoint, config
    app,        \* the host Bottle app: _pypiserver_config, hooks, routes, install outcome
    collector,  \* MetricsPlugin.collector: the MetricsCollector's instruments
    backend,    \* config.backend: the packages the storage backend enumerates
    req,        \* the requests: bottle's request/response of each thread, and its position
    caller      \* a thread other than a request's that calls the collector: its position

vars == <<plugin, app, collector, backend, req, caller>>

-----------------------------------------------------------------------------
(* Bounds *)

\* requests served by the request-level specification Spec, one at a time
SeqRequests == 2
\* request threads of the concurrent specification SpecConc
NumThreads == 2
\* requests served by the installation specification SpecSetup
SetupRequests == 1
\* requests served by the timing specification SpecClock, one at a time
ClockRequests == 2
\* request threads of the overlapping timing specification SpecStamp
StampThreads == 2
\* calls of the collector's record_ methods by a caller other than the hooks, in
\* the specification SpecCollector
DirectCalls == 2

-----------------------------------------------------------------------------
(* Strings *)

PackagesPrefix == <<"/","p","a","c","k","a","g","e","s","/">>
FooFile == <<"f","o","o","-","1",".","0",".","0",".","t","a","r",".","g","z">>
BarFile == <<"b","a","r","-","2",".","1",".","t","a","r",".","g","z">>
ReadmeFile == <<"R","E","A","D","M","E">>
Foo == <<"f","o","o">>
Bar == <<"b","a","r">>
V100 == <<"1",".","0",".","0">>
V21 == <<"2",".","1">>
RootPath == <<"/">>
RpcPath == <<"/","R","P","C","2">>
SimplePath == <<"/","s","i","m","p","l","e","/">>
DefaultEndpoint == <<"/","m","e","t","r","i","c","s">>
StatsEndpoint == <<"/","s","t","a","t","s">>
PromEndpoint == <<"/","p","r","o","m">>
QueryTail == <<"?","x">>
Alice == <<"a","l","i","c","e">>
Anonymous == <<"a","n","o","n","y","m","o","u","s">>
Xmlrpc == <<"x","m","l","r","p","c">>
Empty == <<>>

\* Python's None where the code tests it for truth (request.auth, pkg_info)
None == <<>>

\* s.startswith(p)
StartsWith(s, p) == Len(s) >= Len(p) /\ SubSeq(s, 1, Len(p)) = p

\* the index of the first occurrence of sep in s, 0 when there is none
FirstIndex(s, sep) ==
    LET hits == {i \in 1..(Len(s) - Len(sep) + 1) : SubSeq(s, i, i + Len(sep) - 1) = sep}
    IN  IF hits = {} THEN 0 ELSE CHOOSE i \in hits : \A j \in hits : i <= j

\* s.split(sep, 1)[-1]
SplitLast(s, sep) ==
    LET i == FirstIndex(s, sep)
    IN  IF i = 0 THEN s ELSE SubSeq(s, i + Len(sep), Len(s))

\* s.split(sep)[0]
SplitFirst(s, sep) ==
    LET i == FirstIndex(s, sep)
    IN  IF i = 0 THEN s ELSE SubSeq(s, 1, i - 1)

\* the decimal digits, Digits[d + 1] for the digit d
Digits == <<"0","1","2","3","4","5","6","7","8","9">>

\* str(response.status_code): the decimal digits of the status, most significant
\* first, after a minus sign for a negative number
StatusStr(n) ==
    LET RECURSIVE Dec(_)
        Dec(k) == IF k < 10 THEN <<Digits[k + 1]>>
                  ELSE Dec(k \div 10) \o <<Digits[(k % 10) + 1]>>
    IN  IF n < 0 THEN <<"-">> \o Dec(0 - n) ELSE Dec(n)

\* pypiserver.pkg_helpers.guess_pkgname_and_version on the file names used here:
\* (pkgname, version) of an archive name, None for a name that is no archive
guess_pkgname_and_version(filename) ==
    CASE filename = FooFile -> <<Foo, V100>>
      [] filename = BarFile -> <<Bar, V21>>
      [] OTHER              -> None

-----------------------------------------------------------------------------
(* MetricsCollector *)

\* upper bounds of the duration histogram's buckets, in milliseconds; bucket
\* Len(Buckets) + 1 is +Inf
Buckets == <<5, 10, 25, 50, 75, 100, 250, 500, 750, 1000, 2500, 5000, 7500, 10000>>

NoSeries == [l \in {} |-> 0]

\* MetricsCollector.__init__: every instrument, none with a series yet
NewCollector(now) ==
    [ created                       |-> TRUE,
      http_requests_total           |-> NoSeries,
      http_request_duration_seconds |-> NoSeries,
      package_downloads_total       |-> NoSeries,
      package_uploads_total         |-> NoSeries,
      package_upload_failures_total |-> NoSeries,
      package_removals_total        |-> NoSeries,
      packages_total                |-> 0,
      projects_total                |-> 0,
      searches_total                |-> NoSeries,
      simple_index_requests_total   |-> NoSeries,
      auth_attempts_total           |-> NoSeries,
      errors_total                  |-> NoSeries,
      server_info                   |-> [version |-> "", backend_type |-> "", fallback_url |-> Empty],
      start_time                    |-> now,
      uptime_seconds                |-> 0 ]

\* self.collector = None, before setup
NoCollector == [NewCollector(0) EXCEPT !.created = FALSE]

\* a mutation of Labels in which a later creator replaces the series
LabelsRecreate(metric, l) == (l :> 0) @@ metric

\* metric.labels(...): the series of these label values, created on first use
Labels(metric, l) == IF l \in DOMAIN metric THEN metric ELSE metric @@ (l :> 0)

\* the same for a histogram: a new series has sum 0 and empty buckets
HistLabels(metric, l) ==
    IF l \in DOMAIN metric THEN metric
    ELSE metric @@ (l :> [sum |-> 0, buckets |-> [i \in 1..(Len(Buckets) + 1) |-> 0]])

\* a mutation of CounterInc that loses the value accumulated so far
CounterIncLost(metric, l) == [metric EXCEPT ![l] = 1]

\* series.inc()
CounterInc(metric, l) == [metric EXCEPT ![l] = @ + 1]

\* a mutation of BucketOf in which the upper bound of a bucket is exclusive
BucketOfExclusive(v) ==
    IF \E i \in 1..Len(Buckets) : v < Buckets[i]
    THEN CHOOSE i \in 1..Len(Buckets) : v < Buckets[i] /\ \A j \in 1..(i - 1) : v >= Buckets[j]
    ELSE Len(Buckets) + 1

\* the bucket an observation falls in: the first whose upper bound is >= v
BucketOf(v) ==
    IF \E i \in 1..Len(Buckets) : v <= Buckets[i]
    THEN CHOOSE i \in 1..Len(Buckets) : v <= Buckets[i] /\ \A j \in 1..(i - 1) : v > Buckets[j]
    ELSE Len(Buckets) + 1

\* series.observe(v)
HistObserve(metric, l, v) ==
    [metric EXCEPT ![l] = [sum |-> @.sum + v,
                            buckets |-> [@.buckets EXCEPT ![BucketOf(v)] = @ + 1]]]

\* the observations a histogram series holds (its +Inf cumulative count)
HistCount(series) ==
    LET RECURSIVE Cum(_)
        Cum(i) == IF i = 0 THEN 0 ELSE series.buckets[i] + Cum(i - 1)
    IN  Cum(Len(Buckets) + 1)

\* the value of a counter for label values l: 0 while the series does not exist
Value(metric, l) == IF l \in DOMAIN metric THEN metric[l] ELSE 0

\* the sum of a counter over its series
Total(metric) ==
    LET RECURSIVE Sum(_)
        Sum(D) == IF D = {} THEN 0
                  ELSE LET l == CHOOSE x \in D : TRUE IN metric[l] + Sum(D \ {l})
    IN  Sum(DOMAIN metric)

\* MetricsCollector.record_http_request, its two halves: the counter's series
\* and increment, the histogram's series and observation
record_http_request_labels(c, l) ==
    [c EXCEPT !.http_requests_total = Labels(@, l)]

\* a mutation of record_http_request_inc that leaves out the requests of /metrics
record_http_request_inc_unless_metrics(c, l) ==
    IF l[2] = DefaultEndpoint THEN c
    ELSE [c EXCEPT !.http_requests_total = CounterInc(@, l)]

record_http_request_inc(c, l) ==
    [c EXCEPT !.http_requests_total = CounterInc(@, l)]

record_http_request_hist_labels(c, l) ==
    [c EXCEPT !.http_request_duration_seconds = HistLabels(@, l)]

\* a mutation of record_http_request_observe that observes nothing
record_http_request_no_observe(c, l, duration) == c

record_http_request_observe(c, l, duration) ==
    [c EXCEPT !.http_request_duration_seconds = HistObserve(@, l, duration)]

\* the label values MetricsCollector.record_download uses
record_download(package_name, filename) ==
    [metric |-> "package_downloads_total", labels |-> <<package_name, filename>>]

\* a mutation of record_upload that takes the user as given
record_upload_as_given(package_name, user) ==
    [metric |-> "package_uploads_total", labels |-> <<package_name, user>>]

\* the label values MetricsCollector.record_upload uses: user or "anonymous"
record_upload(package_name, user) ==
    [metric |-> "package_uploads_total",
     labels |-> <<package_name, IF user = Empty THEN Anonymous ELSE user>>]

\* the label values MetricsCollector.record_search uses
record_search(search_type) ==
    [metric |-> "searches_total", labels |-> <<search_type>>]

\* the label values MetricsCollector.record_upload_failure uses
record_upload_failure(reason) ==
    [metric |-> "package_upload_failures_total", labels |-> <<reason>>]

\* the label values MetricsCollector.record_removal uses: user or "anonymous"
record_removal(package_name, user) ==
    [metric |-> "package_removals_total",
     labels |-> <<package_name, IF user = Empty THEN Anonymous ELSE user>>]

\* the label values MetricsCollector.record_simple_index_request uses
record_simple_index_request(project_name) ==
    [metric |-> "simple_index_requests_total", labels |-> <<project_name>>]

\* the label values MetricsCollector.record_auth_attempt uses: the result is
\* "success" if success else "failure"
record_auth_attempt(action, success) ==
    [metric |-> "auth_attempts_total",
     labels |-> <<action, IF success THEN <<"s","u","c","c","e","s","s">>
                          ELSE <<"f","a","i","l","u","r","e">>>>]

\* the label values MetricsCollector.record_error uses; the library keeps a label
\* value as its str(), the digits of the integer status_code
record_error(endpoint, error_type, status_code) ==
    [metric |-> "errors_total", labels |-> <<endpoint, error_type, StatusStr(status_code)>>]

\* a mutation of EventLabels in which record_upload uses the removal counter,
\* whose labels are the same
EventLabelsUploadAsRemoval(c, call) ==
    IF call.metric = "package_uploads_total"
    THEN [c EXCEPT !.package_removals_total = Labels(@, call.labels)]
    ELSE [c EXCEPT ![call.metric] = Labels(@, call.labels)]

\* metric.labels(**labels) of a record_ call on the counter it names
EventLabels(c, call) == [c EXCEPT ![call.metric] = Labels(@, call.labels)]

\* .inc() of the same call
EventInc(c, call) == [c EXCEPT ![call.metric] = CounterInc(@, call.labels)]

\* a mutation of set_server_info that takes its first two arguments in the
\* other order
set_server_info_swapped(c, version, backend_type, fallback_url) ==
    [c EXCEPT !.server_info = [version |-> backend_type, backend_type |-> version,
                               fallback_url |-> fallback_url]]

\* MetricsCollector.set_server_info
set_server_info(c, version, backend_type, fallback_url) ==
    [c EXCEPT !.server_info = [version |-> version, backend_type |-> backend_type,
                               fallback_url |-> fallback_url]]

\* MetricsCollector.update_uptime
update_uptime(c, now) == [c EXCEPT !.uptime_seconds = now - c.start_time]

\* generate_latest(self.registry): the samples of every instrument
generate_latest(c) ==
    [ http_requests_total           |-> c.http_requests_total,
      http_request_duration_seconds |-> c.http_request_duration_seconds,
      package_downloads_total       |-> c.package_downloads_total,
      package_uploads_total         |-> c.package_uploads_total,
      package_upload_failures_total |-> c.package_upload_failures_total,
      package_removals_total        |-> c.package_removals_total,
      packages_total                |-> c.packages_total,
      projects_total                |-> c.projects_total,
      searches_total                |-> c.searches_total,
      simple_index_requests_total   |-> c.simple_index_requests_total,
      auth_attempts_total           |-> c.auth_attempts_total,
      errors_total                  |-> c.errors_total,
      server_info                   |-> c.server_info,
      uptime_seconds                |-> c.uptime_seconds ]

\* prometheus_client.CONTENT_TYPE_LATEST
CONTENT_TYPE_LATEST == "text/plain; version=0.0.4; charset=utf-8"

-----------------------------------------------------------------------------
(* The host: configuration, routes, requests *)

\* app._pypiserver_config is missing
NoConfig ==
    [present |-> FALSE, backend_type |-> "", has_backend |-> FALSE, fallback_url |-> None]

\* a host configuration: backend_type is type(config.backend).__name__ and
\* has_backend is bool(config.backend)
PypiConfig ==
    [present |-> TRUE, backend_type |-> "CachingFileBackend", has_backend |-> TRUE,
     fallback_url |-> None]

FallbackConfig ==
    [present |-> TRUE, backend_type |-> "SimpleFileBackend", has_backend |-> TRUE,
     fallback_url |-> <<"h","t","t","p","s",":","/","/","p","y","p","i",".","o","r","g">>]

\* a host configuration whose backend is None
NullBackendConfig ==
    [present |-> TRUE, backend_type |-> "NoneType", has_backend |-> FALSE,
     fallback_url |-> None]

\* pypiserver.__version__
PypiVersion == "2.0.1"

\* the rules of the routes the host app registers itself
HostRoutes == {RootPath, RpcPath, SimplePath}

\* METRICS_ENDPOINT is not in the environment / no metrics_endpoint argument
Unset == <<"unset">>

NoFields == [f \in {} |-> ""]

NoBody == [kind |-> "none"]

NoCall == [metric |-> "none", labels |-> <<>>]

\* a caller thread outside any call of the collector
IdleCaller == [pc |-> "idle", call |-> NoCall]

\* a request thread that serves nothing yet
IdleRequest ==
    [ pc |-> "idle",
      \* bottle's request
      method |-> "", path |-> Empty, forms |-> NoFields, files |-> NoFields,
      auth |-> None, fault |-> "none", fire_before |-> TRUE, handler_status |-> 200,
      has_start_time |-> FALSE, start_time |-> 0,
      \* bottle's response
      status |-> 200, content_type |-> "text/html; charset=UTF-8", body |-> NoBody,
      \* locals of the handler and of the hook
      refresh |-> "none", package_count |-> 0, project_count |-> 0, render |-> "none",
      duration |-> 0, labels |-> <<>>, call |-> NoCall, hook |-> "pending" ]

\* the inputs of one request
Scenario(method, path, handler_status, forms, files, auth, fault, fire_before) ==
    [method |-> method, path |-> path, handler_status |-> handler_status, forms |-> forms,
     files |-> files, auth |-> auth, fault |-> fault, fire_before |-> fire_before]

Plain(method, path, handler_status) ==
    Scenario(method, path, handler_status, NoFields, NoFields, None, "none", TRUE)

FileUpload == (":action" :> "file_upload")
RemovePkg == (":action" :> "remove_pkg")
Content(raw_filename) == ("content" :> raw_filename)

\* the requests of Spec: every branch of the classification, each collaborator failing
RichScenarios ==
    {Plain("GET", p, 200) :
        p \in {PackagesPrefix \o FooFile, PackagesPrefix \o FooFile \o QueryTail,
               PackagesPrefix, PackagesPrefix \o ReadmeFile, DefaultEndpoint}}
    \cup {Plain("GET", PackagesPrefix \o FooFile, 404), Plain("GET", SimplePath, 301)}
    \cup {Scenario("GET", PackagesPrefix \o FooFile, 200, NoFields, NoFields, None, "parser", TRUE),
          Scenario("GET", PackagesPrefix \o FooFile, 200, NoFields, NoFields, None, "none", FALSE),
          Scenario("GET", RootPath, 200, FileUpload, Content(BarFile), None, "none", TRUE),
          Plain("GET", RpcPath, 200),
          Plain("POST", PackagesPrefix \o FooFile, 200),
          Plain("POST", RpcPath, 200),
          Plain("POST", RpcPath, 404),
          Scenario("POST", RpcPath, 200, FileUpload, Content(BarFile), <<Alice, Alice>>, "forms", TRUE)}
    \cup {Scenario("POST", RootPath, 200, FileUpload, Content(BarFile), a, "none", TRUE) :
            a \in {None, <<Alice, Alice>>, <<Empty, Empty>>}}
    \cup {Scenario("POST", RootPath, 200, FileUpload, Content(BarFile), <<Alice, Alice>>, f, TRUE) :
            f \in {"forms", "files", "parser", "auth"}}
    \cup {Scenario("POST", RootPath, 404, FileUpload, Content(BarFile), None, "none", TRUE),
          Scenario("POST", RootPath, 200, RemovePkg, Content(BarFile), None, "none", TRUE),
          Scenario("POST", RootPath, 200, NoFields, Content(BarFile), None, "none", TRUE),
          Scenario("POST", RootPath, 200, FileUpload, NoFields, None, "none", TRUE),
          Scenario("POST", RootPath, 200, FileUpload, Content(ReadmeFile), None, "none", TRUE)}

\* the requests of SpecConc: overlapping requests of the same and of different series
ConcScenarios ==
    {Plain("GET", PackagesPrefix \o FooFile, 200),
     Plain("POST", RpcPath, 200)}

\* the requests of SpecSetup: a request of each path the plugin may have chosen for
\* its scrape route, and a search
SetupScenarios ==
    {Plain("GET", p, 404) : p \in {DefaultEndpoint, StatsEndpoint, PromEndpoint}}
    \cup {Plain("POST", RpcPath, 200)}

\* the requests of SpecClock and SpecStamp: a search, with and without the
\* before_request hook having fired
ClockScenarios ==
    {Scenario("POST", RpcPath, 200, NoFields, NoFields, None, "none", fire_before) :
        fire_before \in BOOLEAN}

\* the requests of SpecCollector: an upload and a scrape
CollectorScenarios ==
    {Scenario("POST", RootPath, 200, FileUpload, Content(BarFile), <<Alice, Alice>>, "none", TRUE),
     Plain("GET", DefaultEndpoint, 200)}

\* the requests of SpecBackend: a scrape and a search
BackendScenarios ==
    {Plain("GET", DefaultEndpoint, 200), Plain("POST", RpcPath, 200)}

\* the calls of SpecCollector on the collector's record_ methods that no hook calls
DirectCallSet ==
    {record_upload_failure(<<"i","n","v","a","l","i","d">>),
     record_removal(Foo, Empty),
     record_removal(Foo, Alice),
     record_simple_index_request(Foo),
     record_auth_attempt(<<"u","p","d","a","t","e">>, TRUE),
     record_auth_attempt(<<"u","p","d","a","t","e">>, FALSE),
     record_error(SimplePath, <<"V","a","l","u","e","E","r","r","o","r">>, 503)}

\* readings of time.time(), in milliseconds
ClockSeq == {0}

\* readings of time.time() in SpecClock: apart by a bucket bound, and by more than
\* the last bucket bound
ClockWide == {0, 10, 20000}

\* readings of time.time() in SpecStamp
ClockPair == {0, 10}

\* what the backend may hold: the pkgname of each package file
BackendStates == {<<>>, <<Foo, Foo, Bar>>}

-----------------------------------------------------------------------------
(* MetricsPlugin *)

\* a mutation of ChooseEndpoint that lets the constructor argument win
ChooseEndpointArgFirst(env, arg) ==
    IF arg # Unset THEN arg ELSE IF env # Unset THEN env ELSE DefaultEndpoint

\* MetricsPlugin.__init__: os.getenv("METRICS_ENDPOINT", metrics_endpoint), the
\* argument defaulting to "/metrics"
ChooseEndpoint(env, arg) ==
    IF env # Unset THEN env ELSE IF arg # Unset THEN arg ELSE DefaultEndpoint

Status200 == <<"2","0","0">>

Raise == [outcome |-> "raise", call |-> NoCall]
NoEvent == [outcome |-> "none", call |-> NoCall]
Call(c) == [outcome |-> "call", call |-> c]

\* a mutation of IsDownloadRequest that forgets the status
IsDownloadRequestAnyStatus(method, path, status_code) ==
    method = "GET" /\ StartsWith(path, PackagesPrefix)

\* the download branch of _record_application_metrics, its condition
IsDownloadRequest(method, path, status_code) ==
    method = "GET" /\ StartsWith(path, PackagesPrefix) /\ status_code = Status200

\* a mutation of IsUploadRequest that forgets the status
IsUploadRequestAnyStatus(method, path, status_code) ==
    method = "POST" /\ path = RootPath

\* the upload branch, its condition
IsUploadRequest(method, path, status_code) ==
    method = "POST" /\ path = RootPath /\ status_code = Status200

\* a mutation of IsSearchRequest that forgets the method
IsSearchRequestAnyMethod(method, path, status_code) ==
    path = RpcPath /\ status_code = Status200

\* the search branch, its condition
IsSearchRequest(method, path, status_code) ==
    method = "POST" /\ path = RpcPath /\ status_code = Status200

\* the file name of a download: path.split("/packages/", 1)[-1].split("?")[0]
DownloadFilename(path) == SplitFirst(SplitLast(path, PackagesPrefix), <<"?">>)

\* MetricsPlugin._record_application_metrics: the collector call the request's
\* pattern leads to, none, or the exception of a collaborator (rq.fault names the
\* one that raises when it is used)
record_application_metrics(rq, status_code) ==
    IF IsDownloadRequest(rq.method, rq.path, status_code) THEN
        LET filename == DownloadFilename(rq.path)
            pkg_info == guess_pkgname_and_version(filename)
        IN  IF filename = Empty THEN NoEvent
            ELSE IF rq.fault = "parser" THEN Raise
            ELSE IF pkg_info = None THEN NoEvent
            ELSE Call(record_download(pkg_info[1], filename))
    ELSE IF IsUploadRequest(rq.method, rq.path, status_code) THEN
        IF rq.fault = "forms" THEN Raise
        ELSE LET action == IF ":action" \in DOMAIN rq.forms THEN rq.forms[":action"] ELSE ""
             IN  IF action # "file_upload" THEN NoEvent
                 ELSE IF rq.fault = "files" THEN Raise
                 ELSE IF "content" \notin DOMAIN rq.files THEN NoEvent
                 ELSE IF rq.fault = "parser" THEN Raise
                 ELSE LET pkg_info == guess_pkgname_and_version(rq.files["content"])
                      IN  IF pkg_info = None THEN NoEvent
                          ELSE IF rq.fault = "auth" THEN Raise
                          ELSE LET user == IF rq.auth # None THEN rq.auth[1] ELSE Anonymous
                               IN  Call(record_upload(pkg_info[1], user))
    ELSE IF IsSearchRequest(rq.method, rq.path, status_code) THEN
        Call(record_search(Xmlrpc))
    ELSE NoEvent

\* a mutation of EndpointConflict that never finds a conflict
EndpointConflictUnchecked(endpoint, routes) == FALSE

\* the conflict check of _add_metrics_endpoint
EndpointConflict(endpoint, routes) == endpoint \in {route.rule : route \in routes}

\* a mutation of MetricsHandlerExcept that forgets response.status = 500
MetricsHandlerExceptNoStatus(rq, e) ==
    [rq EXCEPT !.content_type = "text/plain",
               !.body = [kind |-> "error", text |-> <<"Error generating metrics: ", e, "\n">>],
               !.render = "raised"]

\* metrics_handler's except clause: the response of a scrape whose rendering raised
MetricsHandlerExcept(rq, e) ==
    [rq EXCEPT !.status = 500, !.content_type = "text/plain",
               !.body = [kind |-> "error", text |-> <<"Error generating metrics: ", e, "\n">>],
               !.render = "raised"]

\* a mutation of BackendQueryFailed that clears the gauges
BackendQueryFailedReset(c) == [c EXCEPT !.packages_total = 0, !.projects_total = 0]

\* the except clauses of _update_repository_stats: the exception is dropped (an
\* AttributeError silently, any other Exception with a warning in the log)
BackendQueryFailed(c) == c

\* what a backend query may do: return, raise AttributeError (the backend has no
\* get_all_packages, a package no pkgname), raise another exception derived from
\* Exception, or raise one that is not (SystemExit, KeyboardInterrupt, GeneratorExit)
QueryOutcomes == {"ok", "AttributeError", "Exception", "BaseException"}

\* the except clauses of _update_repository_stats and of metrics_handler name
\* Exception and its subclasses only
CaughtAsException(outcome) == outcome \in {"AttributeError", "Exception"}

\* an exception of the backend query that no except clause names leaves
\* _update_repository_stats and metrics_handler: nothing is rendered and the
\* response is as bottle bound it (status 200, no body)
MetricsHandlerPropagates(rq) == [rq EXCEPT !.refresh = "raised"]

\* metrics_handler's normal return
MetricsHandlerReturn(rq, c) ==
    [rq EXCEPT !.content_type = CONTENT_TYPE_LATEST,
               !.body = [kind |-> "metrics", samples |-> generate_latest(c)],
               !.render = "ok"]

\* the route a request is dispatched to is the plugin's scrape route
IsScrape(rq) ==
    \E route \in app.routes :
        route.callback = "metrics_handler" /\ route.rule = rq.path /\ route.method = rq.method

InFlight == {r \in DOMAIN req : req[r].pc \notin {"idle", "done"}}

-----------------------------------------------------------------------------
(* Installation *)

HostRoute(rule) == [rule |-> rule, method |-> "GET", callback |-> "host"]

\* the state after MetricsPlugin(...) is constructed and before app.install
InitWith(Envs, Args, Extras, Configs, Backends, N) ==
    /\ \E env \in Envs, arg \in Args :
         plugin = [env |-> env, arg |-> arg, metrics_endpoint |-> ChooseEndpoint(env, arg),
                   config |-> NoConfig]
    /\ \E extra \in Extras, config \in Configs :
         app = [config |-> config, before_request |-> {}, after_request |-> {},
                routes |-> {HostRoute(rule) : rule \in HostRoutes \cup extra},
                installed |-> "no", error |-> ""]
    /\ collector = NoCollector
    /\ backend \in Backends
    /\ req = [r \in 1..N |-> IdleRequest]
    /\ caller = IdleCaller

\* a mutation of SetupFailedOnConflict in which the conflict is found before the
\* hooks are added
SetupFailedOnConflictFirst(a) ==
    [a EXCEPT !.installed = "failed",
              !.error = "Metrics endpoint overlaps with existing routes"]

\* the host app when _add_metrics_endpoint raises on a conflict: setup has added
\* both hooks before it calls _add_metrics_endpoint, and nothing takes them back
SetupFailedOnConflict(a) ==
    [a EXCEPT !.before_request = @ \cup {"_before_request"},
              !.after_request = @ \cup {"_after_request"},
              !.installed = "failed",
              !.error = "Metrics endpoint overlaps with existing routes"]

\* MetricsPlugin.setup, called by app.install(plugin), the whole of it
Setup(Clock) ==
    /\ app.installed = "no"
    /\ IF ~app.config.present
       THEN /\ plugin' = [plugin EXCEPT !.config = app.config]
            /\ app' = [app EXCEPT !.installed = "failed",
                                  !.error = "Cannot find pypiserver config"]
            /\ UNCHANGED collector
       ELSE \E now \in Clock :
            /\ plugin' = [plugin EXCEPT !.config = app.config]
            /\ collector' = set_server_info(NewCollector(now), PypiVersion,
                               app.config.backend_type,
                               IF app.config.fallback_url # None
                               THEN app.config.fallback_url ELSE <<"n","o","n","e">>)
            /\ IF EndpointConflict(plugin.metrics_endpoint, app.routes)
               THEN app' = SetupFailedOnConflict(app)
               ELSE app' = [app EXCEPT !.before_request = @ \cup {"_before_request"},
                                       !.after_request = @ \cup {"_after_request"},
                                       !.routes = @ \cup {[rule |-> plugin.metrics_endpoint,
                                                           method |-> "GET",
                                                           callback |-> "metrics_handler"]},
                                       !.installed = "installed"]
    /\ UNCHANGED <<backend, req, caller>>

\* the storage backend gains or loses packages; the change is taken when it can be
\* seen, immediately before one of the two enumerations of a scrape
BackendChange(Backends) ==
    /\ plugin.config.present /\ plugin.config.has_backend
    /\ \E r \in DOMAIN req : IsScrape(req[r]) /\ req[r].pc \in {"handler", "enumerate"}
    /\ \E b \in Backends \ {backend} : backend' = b
    /\ UNCHANGED <<caller, plugin, app, collector, req>>

-----------------------------------------------------------------------------
(* A request: before_request hook, route handler, after_request hook *)

\* the host accepts a request and binds bottle's request and response to it; at
\* most InFlightMax requests are being served; threads start in order
StartRequest(r, Scenarios, InFlightMax) ==
    /\ app.installed = "installed"
    /\ req[r].pc = "idle"
    /\ r > 1 => req[r - 1].pc # "idle"
    /\ Cardinality(InFlight) < InFlightMax
    /\ \E s \in Scenarios :
         req' = [req EXCEPT ![r] =
                   [IdleRequest EXCEPT !.pc = "before", !.method = s.method, !.path = s.path,
                                       !.forms = s.forms, !.files = s.files, !.auth = s.auth,
                                       !.fault = s.fault, !.fire_before = s.fire_before,
                                       !.handler_status = s.handler_status]]
    /\ UNCHANGED <<caller, plugin, app, collector, backend>>

\* a mutation of SetStartTime that keeps the stamp in one place all requests share
SetStartTimeShared(requests, r, now) ==
    [q \in DOMAIN requests |->
        [requests[q] EXCEPT !.has_start_time = TRUE, !.start_time = now]]

\* request._metrics_start_time = now: bottle's request is bound to the thread's
\* own request, the attribute is stored with that request
SetStartTime(requests, r, now) ==
    [requests EXCEPT ![r].has_start_time = TRUE, ![r].start_time = now]

\* MetricsPlugin._before_request; the host fires it unless an earlier hook of its
\* own has already failed the request
BeforeRequest(r, Clock) ==
    /\ req[r].pc = "before"
    /\ IF "_before_request" \in app.before_request /\ req[r].fire_before
       THEN \E now \in Clock :
              req' = [SetStartTime(req, r, now) EXCEPT ![r].pc = "handler"]
       ELSE req' = [req EXCEPT ![r].pc = "handler"]
    /\ UNCHANGED <<caller, plugin, app, collector, backend>>

\* a route handler of the host: it decides the response status
HostHandler(r) ==
    /\ req[r].pc = "handler"
    /\ ~IsScrape(req[r])
    /\ req' = [req EXCEPT ![r].pc = "after", ![r].status = req[r].handler_status,
                          ![r].body = [kind |-> "host"]]
    /\ UNCHANGED <<caller, plugin, app, collector, backend>>

\* metrics_handler calls _update_repository_stats: its guard (no configuration,
\* or a backend that is None or falsy: return before any query) and the first
\* enumeration, len(list(backend.get_all_packages())), which may raise
RefreshCount(r) ==
    /\ req[r].pc = "handler"
    /\ IsScrape(req[r])
    /\ IF ~plugin.config.present \/ ~plugin.config.has_backend
       THEN /\ req' = [req EXCEPT ![r].pc = "uptime", ![r].refresh = "skipped"]
            /\ UNCHANGED collector
       ELSE \E outcome \in QueryOutcomes :
              IF outcome = "ok"
              THEN /\ req' = [req EXCEPT ![r].pc = "enumerate",
                                           ![r].package_count = Len(backend)]
                   /\ UNCHANGED collector
              ELSE IF CaughtAsException(outcome)
              THEN /\ req' = [req EXCEPT ![r].pc = "uptime", ![r].refresh = "failed"]
                   /\ collector' = BackendQueryFailed(collector)
              ELSE /\ req' = [req EXCEPT ![r] = [MetricsHandlerPropagates(req[r])
                                                   EXCEPT !.pc = "after"]]
                   /\ UNCHANGED collector
    /\ UNCHANGED <<caller, plugin, app, backend>>

\* the second enumeration: the set of pkgname over backend.get_all_packages()
RefreshProjects(r) ==
    /\ req[r].pc = "enumerate"
    /\ \E outcome \in QueryOutcomes :
         IF outcome = "ok"
         THEN /\ req' = [req EXCEPT ![r].pc = "set_packages",
                          ![r].project_count = Cardinality({backend[i] : i \in 1..Len(backend)})]
              /\ UNCHANGED collector
         ELSE IF CaughtAsException(outcome)
         THEN /\ req' = [req EXCEPT ![r].pc = "uptime", ![r].refresh = "failed"]
              /\ collector' = BackendQueryFailed(collector)
         ELSE /\ req' = [req EXCEPT ![r] = [MetricsHandlerPropagates(req[r])
                                              EXCEPT !.pc = "after"]]
              /\ UNCHANGED collector
    /\ UNCHANGED <<caller, plugin, app, backend>>

\* update_package_counts: self.packages_total.set(package_count)
SetPackages(r) ==
    /\ req[r].pc = "set_packages"
    /\ collector' = [collector EXCEPT !.packages_total = req[r].package_count]
    /\ req' = [req EXCEPT ![r].pc = "set_projects"]
    /\ UNCHANGED <<caller, plugin, app, backend>>

\* update_package_counts: self.projects_total.set(project_count)
SetProjects(r) ==
    /\ req[r].pc = "set_projects"
    /\ collector' = [collector EXCEPT !.projects_total = req[r].project_count]
    /\ req' = [req EXCEPT ![r].pc = "uptime", ![r].refresh = "ok"]
    /\ UNCHANGED <<caller, plugin, app, backend>>

\* generate_metrics: update_uptime
UpdateUptime(r, Clock) ==
    /\ req[r].pc = "uptime"
    /\ \E now \in Clock : collector' = update_uptime(collector, now)
    /\ req' = [req EXCEPT ![r].pc = "render"]
    /\ UNCHANGED <<caller, plugin, app, backend>>

\* generate_metrics: generate_latest, and metrics_handler's return; or
\* generate_latest raises an exception derived from Exception and metrics_handler's
\* except clause answers; or it raises one that is not, which leaves metrics_handler
\* with the response as bottle bound it
Render(r) ==
    /\ req[r].pc = "render"
    /\ \/ req' = [req EXCEPT ![r] = [MetricsHandlerReturn(req[r], collector) EXCEPT !.pc = "after"]]
       \/ req' = [req EXCEPT ![r] = [MetricsHandlerExcept(req[r], "render failed") EXCEPT !.pc = "after"]]
       \/ req' = [req EXCEPT ![r].pc = "after"]
    /\ UNCHANGED <<caller, plugin, app, collector, backend>>

\* MetricsPlugin._after_request up to the call of record_http_request: the two
\* clock readings of time.time() - getattr(request, "_metrics_start_time", time.time())
AfterRequest(r, Clock) ==
    /\ req[r].pc = "after"
    /\ IF "_after_request" \notin app.after_request
       THEN req' = [req EXCEPT ![r].pc = "done"]
       ELSE IF ~collector.created
       THEN req' = [req EXCEPT ![r].pc = "done", ![r].hook = "returned"]
       ELSE \E now \in Clock, default \in Clock :
              req' = [req EXCEPT
                        ![r].pc = "http_labels",
                        ![r].duration = now - (IF req[r].has_start_time
                                               THEN req[r].start_time ELSE default),
                        ![r].labels = <<req[r].method, req[r].path, StatusStr(req[r].status)>>]
    /\ UNCHANGED <<caller, plugin, app, collector, backend>>

\* record_http_request: self.http_requests_total.labels(...)
HttpLabels(r) ==
    /\ req[r].pc = "http_labels"
    /\ collector' = record_http_request_labels(collector, req[r].labels)
    /\ req' = [req EXCEPT ![r].pc = "http_inc"]
    /\ UNCHANGED <<caller, plugin, app, backend>>

\* record_http_request: .inc()
HttpInc(r) ==
    /\ req[r].pc = "http_inc"
    /\ collector' = record_http_request_inc(collector, req[r].labels)
    /\ req' = [req EXCEPT ![r].pc = "hist_labels"]
    /\ UNCHANGED <<caller, plugin, app, backend>>

\* record_http_request: self.http_request_duration_seconds.labels(...)
HttpHistLabels(r) ==
    /\ req[r].pc = "hist_labels"
    /\ collector' = record_http_request_hist_labels(collector, req[r].labels)
    /\ req' = [req EXCEPT ![r].pc = "observe"]
    /\ UNCHANGED <<caller, plugin, app, backend>>

\* record_http_request: .observe(duration)
HttpObserve(r) ==
    /\ req[r].pc = "observe"
    /\ collector' = record_http_request_observe(collector, req[r].labels, req[r].duration)
    /\ req' = [req EXCEPT ![r].pc = "classify"]
    /\ UNCHANGED <<caller, plugin, app, backend>>

\* _after_request calls _record_application_metrics: no event and the hook
\* returns, an exception that leaves the hook, or the labels() of a collector call
Classify(r) ==
    /\ req[r].pc = "classify"
    /\ LET result == record_application_metrics(req[r], req[r].labels[3])
       IN  CASE result.outcome = "none" ->
                  /\ req' = [req EXCEPT ![r].pc = "done", ![r].hook = "returned"]
                  /\ UNCHANGED collector
             [] result.outcome = "raise" ->
                  /\ req' = [req EXCEPT ![r].pc = "done", ![r].hook = "raised"]
                  /\ UNCHANGED collector
             [] result.outcome = "call" ->
                  /\ req' = [req EXCEPT ![r].pc = "event_inc", ![r].call = result.call]
                  /\ collector' = EventLabels(collector, result.call)
    /\ UNCHANGED <<caller, plugin, app, backend>>

\* the .inc() of record_download / record_upload / record_search; the hook returns
EventCounterInc(r) ==
    /\ req[r].pc = "event_inc"
    /\ collector' = EventInc(collector, req[r].call)
    /\ req' = [req EXCEPT ![r].pc = "done", ![r].hook = "returned"]
    /\ UNCHANGED <<caller, plugin, app, backend>>

\* the increments made so far on the counters of a set of calls
CallTotal(Calls) ==
    LET RECURSIVE Sum(_)
        Sum(M) == IF M = {} THEN 0
                  ELSE LET m == CHOOSE x \in M : TRUE IN Total(collector[m]) + Sum(M \ {m})
    IN  Sum({call.metric : call \in Calls})

\* a caller that holds plugin.collector, on a thread of its own, calls one of its
\* record_ methods: self.<counter>.labels(...), the first half of the method;
\* MaxCalls bounds these calls
CollectorCallLabels(Calls, MaxCalls) ==
    /\ collector.created
    /\ caller.pc = "idle"
    /\ CallTotal(Calls) < MaxCalls
    /\ \E call \in Calls :
         /\ collector' = EventLabels(collector, call)
         /\ caller' = [pc |-> "inc", call |-> call]
    /\ UNCHANGED <<plugin, app, backend, req>>

\* .inc() on the series labels() returned, and the method returns
CollectorCallInc ==
    /\ caller.pc = "inc"
    /\ collector' = EventInc(collector, caller.call)
    /\ caller' = IdleCaller
    /\ UNCHANGED <<plugin, app, backend, req>>

\* one step of the hooks around a request, or of a handler of the host
Serve(Clock) ==
    \/ \E r \in DOMAIN req : BeforeRequest(r, Clock)
    \/ \E r \in DOMAIN req : HostHandler(r)
    \/ \E r \in DOMAIN req : AfterRequest(r, Clock)
    \/ \E r \in DOMAIN req : HttpLabels(r)
    \/ \E r \in DOMAIN req : HttpInc(r)
    \/ \E r \in DOMAIN req : HttpHistLabels(r)
    \/ \E r \in DOMAIN req : HttpObserve(r)
    \/ \E r \in DOMAIN req : Classify(r)
    \/ \E r \in DOMAIN req : EventCounterInc(r)

\* one step of metrics_handler
Scrape(Clock) ==
    \/ \E r \in DOMAIN req : RefreshCount(r)
    \/ \E r \in DOMAIN req : RefreshProjects(r)
    \/ \E r \in DOMAIN req : SetPackages(r)
    \/ \E r \in DOMAIN req : SetProjects(r)
    \/ \E r \in DOMAIN req : UpdateUptime(r, Clock)
    \/ \E r \in DOMAIN req : Render(r)

-----------------------------------------------------------------------------
(* Specifications *)

\* Spec: the default installation serving requests of every kind, one at a time
Init == InitWith({Unset}, {Unset}, {{}}, {PypiConfig}, {<<Foo, Foo, Bar>>}, SeqRequests)

Next ==
    \/ Setup(ClockSeq)
    \/ BackendChange(BackendStates)
    \/ \E r \in DOMAIN req : StartRequest(r, RichScenarios, 1)
    \/ Serve(ClockSeq)
    \/ Scrape(ClockSeq)

Spec == Init /\ [][Next]_vars

\* SpecConc: the default installation serving overlapping requests
InitConc == InitWith({Unset}, {Unset}, {{}}, {PypiConfig}, {<<Foo, Foo, Bar>>}, NumThreads)

NextConc ==
    \/ Setup(ClockSeq)
    \/ \E r \in DOMAIN req : StartRequest(r, ConcScenarios, NumThreads)
    \/ Serve(ClockSeq)

SpecConc == InitConc /\ [][NextConc]_vars

\* SpecSetup: every installation (environment, constructor argument, host routes,
\* host configuration), then requests
InitSetup ==
    InitWith({Unset, StatsEndpoint}, {Unset, PromEndpoint},
             {{}, {DefaultEndpoint}, {StatsEndpoint}},
             {NoConfig, PypiConfig, FallbackConfig}, {<<Foo, Foo, Bar>>}, SetupRequests)

NextSetup ==
    \/ Setup(ClockSeq)
    \/ \E r \in DOMAIN req : StartRequest(r, SetupScenarios, 1)
    \/ Serve(ClockSeq)
    \/ Scrape(ClockSeq)

SpecSetup == InitSetup /\ [][NextSetup]_vars

\* SpecClock: the default installation serving searches one at a time, the clock
\* reading anything between two calls of time.time()
InitClock == InitWith({Unset}, {Unset}, {{}}, {PypiConfig}, {<<Foo, Foo, Bar>>}, ClockRequests)

NextClock ==
    \/ Setup(ClockSeq)
    \/ \E r \in DOMAIN req : StartRequest(r, ClockScenarios, 1)
    \/ Serve(ClockWide)

SpecClock == InitClock /\ [][NextClock]_vars

\* SpecStamp: the same with overlapping requests
InitStamp == InitWith({Unset}, {Unset}, {{}}, {PypiConfig}, {<<Foo, Foo, Bar>>}, StampThreads)

NextStamp ==
    \/ Setup(ClockSeq)
    \/ \E r \in DOMAIN req : StartRequest(r, ClockScenarios, StampThreads)
    \/ Serve(ClockPair)

SpecStamp == InitStamp /\ [][NextStamp]_vars

\* SpecBackend: an installation with a storage backend or with none, serving
\* scrapes and searches one at a time while the backend's packages change and its
\* queries fail in every way
InitBackend ==
    InitWith({Unset}, {Unset}, {{}}, {PypiConfig, NullBackendConfig}, {<<Foo, Foo, Bar>>},
             SeqRequests)

NextBackend ==
    \/ Setup(ClockSeq)
    \/ BackendChange(BackendStates)
    \/ \E r \in DOMAIN req : StartRequest(r, BackendScenarios, 1)
    \/ Serve(ClockSeq)
    \/ Scrape(ClockSeq)

SpecBackend == InitBackend /\ [][NextBackend]_vars

\* SpecCollector: the default installation serving an upload or a scrape, while a
\* caller of its own uses the record_ methods of the collector that the hooks
\* leave unused
InitCollector ==
    InitWith({Unset}, {Unset}, {{}}, {PypiConfig}, {<<Foo, Foo, Bar>>}, SetupRequests)

NextCollector ==
    \/ Setup(ClockSeq)
    \/ \E r \in DOMAIN req : StartRequest(r, CollectorScenarios, 1)
    \/ Serve(ClockSeq)
    \/ Scrape(ClockSeq)
    \/ CollectorCallLabels(DirectCallSet, DirectCalls)
    \/ CollectorCallInc

SpecCollector == InitCollector /\ [][NextCollector]_vars

-----------------------------------------------------------------------------
(* Properties *)

Requests == DOMAIN req

Done(r) == req[r].pc = "done"

\* request r's after_request hook has incremented http_requests_total
HttpCounted(r) == req[r].pc \in {"hist_labels", "observe", "classify", "event_inc", "done"}

\* request r's after_request hook has observed its duration
HttpObserved(r) == req[r].pc \in {"classify", "event_inc", "done"}

\* the series of the generic HTTP metric request r belongs to
HttpSeries(r) == <<req[r].method, req[r].path, StatusStr(req[r].status)>>

\* C1: if a collaborator raises during the classification of a request (the
\* filename parser, request.forms, request.files or request.auth), the
\* after_request hook still returns normally, the request's generic HTTP metric
\* is recorded and the response is the one the handler produced.
C1_ClassificationFailureSwallowed ==
    \A r \in Requests :
        (Done(r) /\ req[r].fault # "none") =>
            /\ req[r].hook = "returned"
            /\ Value(collector.http_requests_total, HttpSeries(r)) >= 1
            /\ req[r].status = req[r].handler_status

\* C2: every firing of the after_request hook adds exactly 1 to
\* http_requests_total of the request's series (method, path, str(status)) and
\* exactly one observation to the histogram of the same series: each series
\* counts the requests of that series whose hook has got that far, the sum over
\* all series is the number of such requests, and when no request is being
\* served the histogram count of every series equals its counter.
C2_HttpMetricOncePerRequest ==
    /\ \A l \in DOMAIN collector.http_requests_total :
         collector.http_requests_total[l]
            = Cardinality({r \in Requests : HttpCounted(r) /\ HttpSeries(r) = l})
    /\ \A l \in DOMAIN collector.http_request_duration_seconds :
         HistCount(collector.http_request_duration_seconds[l])
            = Cardinality({r \in Requests : HttpObserved(r) /\ HttpSeries(r) = l})
    /\ \A r \in Requests :
         /\ HttpCounted(r) => HttpSeries(r) \in DOMAIN collector.http_requests_total
         /\ HttpObserved(r) => HttpSeries(r) \in DOMAIN collector.http_request_duration_seconds
    /\ Total(collector.http_requests_total) = Cardinality({r \in Requests : HttpCounted(r)})
    /\ InFlight = {} =>
         /\ Total(collector.http_requests_total) = Cardinality({r \in Requests : Done(r)})
         /\ DOMAIN collector.http_request_duration_seconds = DOMAIN collector.http_requests_total
         /\ \A l \in DOMAIN collector.http_requests_total :
              HistCount(collector.http_request_duration_seconds[l])
                 = collector.http_requests_total[l]

\* two requests of one series are complete, one of them with a failed
\* classification, and the series stands at 2 with 2 observations
C2_Witness ==
    /\ InFlight = {}
    /\ \E r1, r2 \in Requests :
         /\ r1 # r2 /\ Done(r1) /\ Done(r2)
         /\ HttpSeries(r1) = HttpSeries(r2)
         /\ req[r1].hook = "raised"
         /\ Value(collector.http_requests_total, HttpSeries(r1)) = 2
         /\ HistCount(collector.http_request_duration_seconds[HttpSeries(r1)]) = 2

\* the download a request must have recorded once it is complete: GET, under
\* /packages/, status 200, the parser accepting the file name
DownloadOf(r) ==
    LET filename == DownloadFilename(req[r].path)
    IN  IF /\ Done(r) /\ req[r].method = "GET" /\ StartsWith(req[r].path, PackagesPrefix)
           /\ req[r].status = 200 /\ req[r].fault = "none"
           /\ filename # Empty /\ guess_pkgname_and_version(filename) # None
        THEN {<<guess_pkgname_and_version(filename)[1], filename>>}
        ELSE {}

\* the search a request must have recorded once it is complete
SearchOf(r) ==
    IF Done(r) /\ req[r].method = "POST" /\ req[r].path = RpcPath /\ req[r].status = 200
    THEN {<<Xmlrpc>>}
    ELSE {}

\* C3: however the increments of overlapping requests interleave, every counter
\* series holds exactly the number of increments made to it: a series of
\* http_requests_total the requests of that series that have incremented it
\* (N when N overlapping requests of one series are complete), a series of the
\* download and search counters the complete requests that recorded that event;
\* no increment is lost, counted twice, or lands on another series.
C3_NoLostIncrement ==
    /\ \A l \in DOMAIN collector.http_requests_total :
         collector.http_requests_total[l]
            = Cardinality({r \in Requests : HttpCounted(r) /\ HttpSeries(r) = l})
    /\ \A l \in DOMAIN collector.package_downloads_total :
         collector.package_downloads_total[l]
            = Cardinality({r \in Requests : l \in DownloadOf(r)})
    /\ \A l \in DOMAIN collector.searches_total :
         collector.searches_total[l] = Cardinality({r \in Requests : l \in SearchOf(r)})
    /\ \A r \in Requests :
         /\ HttpCounted(r) => HttpSeries(r) \in DOMAIN collector.http_requests_total
         /\ DownloadOf(r) \subseteq DOMAIN collector.package_downloads_total
         /\ SearchOf(r) \subseteq DOMAIN collector.searches_total
    /\ (\A r \in Requests : Done(r)) =>
         \A l \in DOMAIN collector.http_requests_total :
            (\A r \in Requests : HttpSeries(r) = l) =>
                collector.http_requests_total[l] = Cardinality(Requests)

\* all the request threads were inside record_http_request for one series at the
\* same time, each has incremented it, and the series holds their number
C3_Witness ==
    /\ \A r \in Requests : req[r].pc = "hist_labels" /\ HttpSeries(r) = HttpSeries(1)
    /\ Cardinality(Requests) >= 2
    /\ collector.http_requests_total[HttpSeries(1)] = Cardinality(Requests)

\* C4: a complete GET request under /packages/ whose file name the parser
\* accepts has recorded exactly one download, labelled (parsed project name,
\* file name), when its status is 200 and none when the status is anything
\* else: every series of package_downloads_total counts exactly the complete
\* requests with that download, and there is no other series.
C4_DownloadRecordedOnce ==
    /\ \A l \in DOMAIN collector.package_downloads_total :
         /\ collector.package_downloads_total[l]
               = Cardinality({r \in Requests : l \in DownloadOf(r)})
         /\ \E r \in Requests :
               /\ req[r].method = "GET" /\ StartsWith(req[r].path, PackagesPrefix)
               /\ req[r].status = 200
    /\ \A r \in Requests : DownloadOf(r) \subseteq DOMAIN collector.package_downloads_total
    /\ \A r \in Requests :
         (Done(r) /\ req[r].path = PackagesPrefix \o FooFile /\ req[r].method = "GET"
                  /\ req[r].fault = "none") =>
            DownloadOf(r) = IF req[r].status = 200 THEN {<<Foo, FooFile>>} ELSE {}

\* GET /packages/foo-1.0.0.tar.gz was served twice, once with 200 and once with
\* 404, and the only download on record is one of (foo, foo-1.0.0.tar.gz)
C4_Witness ==
    /\ \E r1, r2 \in Requests :
         /\ Done(r1) /\ Done(r2)
         /\ req[r1].method = "GET" /\ req[r1].path = PackagesPrefix \o FooFile
         /\ req[r2].method = "GET" /\ req[r2].path = PackagesPrefix \o FooFile
         /\ req[r1].status = 200 /\ req[r1].fault = "none" /\ req[r2].status = 404
    /\ collector.package_downloads_total = (<<Foo, FooFile>> :> 1)

\* the upload a request must have recorded once it is complete: POST /, status
\* 200, :action = file_upload, a part named content, the parser accepting its
\* raw file name; the user is the authenticated one, anonymous when there is
\* none or its name is empty
UploadOf(r) ==
    IF /\ Done(r) /\ req[r].method = "POST" /\ req[r].path = RootPath /\ req[r].status = 200
       /\ req[r].fault = "none"
       /\ ":action" \in DOMAIN req[r].forms /\ req[r].forms[":action"] = "file_upload"
       /\ "content" \in DOMAIN req[r].files
       /\ guess_pkgname_and_version(req[r].files["content"]) # None
    THEN {<<guess_pkgname_and_version(req[r].files["content"])[1],
            IF req[r].auth = None \/ req[r].auth[1] = Empty THEN Anonymous ELSE req[r].auth[1]>>}
    ELSE {}

\* C5: a complete POST / with status 200, :action = file_upload and a content
\* part whose raw file name the parser accepts has recorded exactly one upload,
\* labelled (parsed project name, authenticated user or anonymous); a request
\* with another :action, without the content part or with a file name that
\* does not parse has recorded none: every series of package_uploads_total
\* counts exactly the complete requests with that upload.
C5_UploadRecordedOnce ==
    /\ \A l \in DOMAIN collector.package_uploads_total :
         collector.package_uploads_total[l] = Cardinality({r \in Requests : l \in UploadOf(r)})
    /\ \A r \in Requests : UploadOf(r) \subseteq DOMAIN collector.package_uploads_total
    /\ \A r \in Requests :
         (Done(r) /\ req[r].method = "POST" /\ req[r].path = RootPath /\ req[r].status = 200
                  /\ req[r].fault = "none" /\ req[r].forms = FileUpload
                  /\ req[r].files = Content(BarFile)) =>
            UploadOf(r) = {<<Bar, IF req[r].auth = <<Alice, Alice>> THEN Alice ELSE Anonymous>>}

\* bar-2.1.tar.gz was uploaded once without an authenticated user and once by a
\* user with an empty name: two uploads of (bar, anonymous)
C5_Witness ==
    /\ \E r1, r2 \in Requests :
         /\ Done(r1) /\ Done(r2)
         /\ req[r1].auth = None /\ req[r2].auth = <<Empty, Empty>>
         /\ UploadOf(r1) # {} /\ UploadOf(r2) # {}
    /\ collector.package_uploads_total = (<<Bar, Anonymous>> :> 2)

\* C6: every complete POST /RPC2 with status 200 has recorded exactly one
\* search of type xmlrpc, whatever the request carries; with any other status,
\* and for any other request, none is recorded.
C6_SearchRecordedOnce ==
    /\ DOMAIN collector.searches_total \subseteq {<<Xmlrpc>>}
    /\ Value(collector.searches_total, <<Xmlrpc>>)
          = Cardinality({r \in Requests : Done(r) /\ req[r].method = "POST"
                                            /\ req[r].path = RpcPath /\ req[r].status = 200})

\* POST /RPC2 was served with 200, carrying form fields, and with 404: one search
C6_Witness ==
    /\ \E r1, r2 \in Requests :
         /\ Done(r1) /\ Done(r2)
         /\ req[r1].method = "POST" /\ req[r1].path = RpcPath /\ req[r1].status = 200
         /\ req[r1].forms # NoFields
         /\ req[r2].method = "POST" /\ req[r2].path = RpcPath /\ req[r2].status = 404
    /\ collector.searches_total = (<<Xmlrpc>> :> 1)

\* the domain events on record
DomainEvents ==
    Total(collector.package_downloads_total) + Total(collector.package_uploads_total)
        + Total(collector.searches_total)

\* request r has the method, path and status of one of the three rules
MatchesRule(r) ==
    /\ req[r].status = 200
    /\ \/ req[r].method = "GET" /\ StartsWith(req[r].path, PackagesPrefix)
       \/ req[r].method = "POST" /\ req[r].path = RootPath
       \/ req[r].method = "POST" /\ req[r].path = RpcPath

\* C7: a request records at most one domain event, and none when it matches
\* none of the three rules: the domain events on record never exceed the
\* complete requests that match a rule, and a complete request that matches
\* none has made no collector call for an event while its generic HTTP metric
\* is on record.
C7_OneClassificationPath ==
    /\ DomainEvents <= Cardinality({r \in Requests : Done(r) /\ MatchesRule(r)})
    /\ DomainEvents = Cardinality({r \in Requests : Done(r) /\ req[r].call # NoCall})
    /\ \A r \in Requests :
         (Done(r) /\ ~MatchesRule(r)) =>
            /\ req[r].call = NoCall
            /\ Value(collector.http_requests_total, HttpSeries(r)) >= 1

\* a request that matches no rule and one that matches are complete: one domain
\* event and two HTTP requests are on record
C7_Witness ==
    /\ \E r1, r2 \in Requests :
         /\ Done(r1) /\ Done(r2) /\ ~MatchesRule(r1) /\ MatchesRule(r2)
         /\ req[r1].method = "POST" /\ req[r1].path = RootPath /\ req[r1].status = 404
    /\ DomainEvents = 1
    /\ Total(collector.http_requests_total) = 2

\* the repository-state gauges
Gauges == <<collector.packages_total, collector.projects_total>>

\* the backend query of a scrape raised, whatever the exception
QueryFailed(rq) == rq.refresh \in {"failed", "raised"}

\* C8 as stated: a scrape whose backend query fails for any reason, an exception
\* of any type included, writes neither gauge, and still returns 200 with the
\* exposition content type and the rendered metrics (unless its rendering raised).
C8_AnyQueryFailureAnswers200 ==
    /\ [][\A r \in Requests :
            (req'[r] # req[r]
                /\ (req[r].pc \in {"handler", "enumerate"} \/ QueryFailed(req'[r])))
            => Gauges' = Gauges]_vars
    /\ [](\A r \in Requests :
            (QueryFailed(req[r]) /\ Done(r)
                /\ (req[r].refresh = "raised" \/ req[r].render = "ok")) =>
                /\ req[r].status = 200
                /\ req[r].content_type = CONTENT_TYPE_LATEST
                /\ req[r].body.kind = "metrics")

\* C8: a scrape whose backend query raises, in the first or in the second
\* enumeration, writes neither gauge, whatever the exception: no step of a scrape
\* changes packages_total or projects_total before both enumerations have
\* succeeded, nor once its query has failed or was skipped for want of a backend.
\* When the exception derives from Exception (the AttributeError of an
\* incompatible backend included), or there is no backend to query, the handler
\* goes on to generate_metrics, and when the rendering does not raise the response is 200
\* with the exposition content type and the rendered metrics. When the exception
\* does not derive from Exception it leaves the handler: nothing is rendered and
\* the response has no body.
C8_FailedRefreshKeepsGauges ==
    /\ [][\A r \in Requests :
            (req'[r] # req[r]
                /\ (\/ req[r].pc \in {"handler", "enumerate"}
                    \/ QueryFailed(req'[r])
                    \/ req'[r].refresh = "skipped"))
            => Gauges' = Gauges]_vars
    /\ [][\A r \in Requests :
            (req[r].refresh = "none" /\ req'[r].refresh \in {"failed", "skipped"})
            => req'[r].pc = "uptime"]_vars
    /\ [](\A r \in Requests :
            /\ (req[r].refresh \in {"failed", "skipped"} /\ req[r].render = "ok") =>
                   /\ req[r].status = 200
                   /\ req[r].content_type = CONTENT_TYPE_LATEST
                   /\ req[r].body.kind = "metrics"
            /\ req[r].refresh = "raised" =>
                   /\ req[r].render = "none"
                   /\ req[r].body = NoBody
            /\ (req[r].refresh = "skipped" /\ IsScrape(req[r])) => ~plugin.config.has_backend)

\* a scrape refreshed the gauges to 3 packages of 2 projects; the backend then
\* lost its packages and the query of the next scrape failed: that scrape
\* returned 200 and its body still reports 3 and 2
C8_Witness ==
    /\ Cardinality(Requests) >= 2
    /\ req[1].refresh = "ok" /\ Done(1)
    /\ req[2].refresh = "failed" /\ Done(2)
    /\ backend = <<>>
    /\ req[2].status = 200 /\ req[2].body.kind = "metrics"
    /\ req[2].body.samples.packages_total = 3
    /\ req[2].body.samples.projects_total = 2
    /\ Gauges = <<3, 2>>

\* the handler of request r has returned or was left by an exception
Handled(r) ==
    req[r].pc \in {"after", "http_labels", "http_inc", "hist_labels", "observe",
                   "classify", "event_inc", "done"}

\* request r is a scrape whose handler got as far as rendering the registry
ReachedRender(r) == IsScrape(req[r]) /\ Handled(r) /\ req[r].refresh # "raised"

HostRouteConflict ==
    \E route \in app.routes : route.callback = "host" /\ route.rule = plugin.metrics_endpoint

\* C10: when the scrape path is the rule of a route the host app already has,
\* setup fails with an error, the scrape route is never registered and no
\* request is served.
C10_RouteConflictFailsSetup ==
    HostRouteConflict =>
        /\ app.installed \in {"no", "failed"}
        /\ app.installed = "failed" => app.error # ""
        /\ ~ \E route \in app.routes : route.callback = "metrics_handler"
        /\ \A r \in Requests : req[r].pc = "idle"

\* the host has its configuration and a route at the scrape path, and setup
\* has failed on the conflict
C10_Witness ==
    /\ HostRouteConflict
    /\ app.config.present
    /\ app.installed = "failed"
    /\ app.error = "Metrics endpoint overlaps with existing routes"

\* the package count and the project count of a list of packages
CountsOf(b) == <<Len(b), Cardinality({b[i] : i \in 1..Len(b)})>>

\* C11: the body of a scrape whose backend query succeeded and whose rendering
\* did not raise reports packages_total and projects_total as the number of
\* packages and of distinct project names of one list the backend enumerates,
\* with status 200 and the exposition content type, also when the backend's
\* package list changes while the scrape is being served.
C11_ScrapeReportsBackend ==
    \A r \in Requests :
        (req[r].refresh = "ok" /\ req[r].render = "ok") =>
            /\ \E b \in BackendStates :
                 <<req[r].body.samples.packages_total,
                   req[r].body.samples.projects_total>> = CountsOf(b)
            /\ req[r].status = 200
            /\ req[r].content_type = CONTENT_TYPE_LATEST

\* request r's after_request hook has computed the duration it observes
Timed(r) ==
    req[r].pc \in {"http_labels", "http_inc", "hist_labels", "observe", "classify",
                   "event_inc", "done"}

\* C12: the duration the after_request hook observes is never negative, and it
\* is exactly 0 when the before_request hook never stamped the request,
\* whatever the clock reads at each call of time.time().
C12_DurationNeverNegative ==
    \A r \in Requests :
        Timed(r) =>
            /\ req[r].duration >= 0
            /\ ~req[r].has_start_time => req[r].duration = 0

\* the timing context of request r
Stamp(r) == <<req[r].has_start_time, req[r].start_time>>

\* C13: the timing context is request-scoped: the stamp of a request is written
\* by no step but that request's own before_request hook (it is blank when the
\* request starts), however the hooks of overlapping requests interleave, and
\* the duration its after_request hook computes is a clock reading minus
\* that stamp.
C13_StampRequestScoped ==
    [][\A r \in Requests :
          /\ Stamp(r)' # Stamp(r) =>
                \/ req[r].pc = "before" /\ req'[r].pc = "handler"
                \/ req[r].pc = "idle" /\ ~req'[r].has_start_time
          /\ (req[r].pc = "after" /\ req'[r].pc = "http_labels" /\ req[r].has_start_time) =>
                \E now \in ClockPair : req'[r].duration = now - req[r].start_time]_vars

\* request 1 was stamped at 0, the before_request hook of request 2 then stamped
\* request 2 at 10 while request 1 was being served, and the after_request hook of
\* request 1 at 10 computed 10, the time since its own stamp
C13_Witness ==
    /\ Cardinality(Requests) >= 2
    /\ Stamp(1) = <<TRUE, 0>> /\ Stamp(2) = <<TRUE, 10>>
    /\ req[2].pc = "handler"
    /\ req[1].pc = "http_labels" /\ req[1].duration = 10

\* the routes of the host app that lead to the plugin's metrics_handler
ScrapeRoutes == {route \in app.routes : route.callback = "metrics_handler"}

\* C14: the scrape path is the value of METRICS_ENDPOINT when the variable is
\* set, whatever was passed to the constructor, otherwise the constructor
\* argument, otherwise /metrics; a setup that succeeds has registered exactly
\* one scrape route, GET on exactly that path, and no other setup registers one.
C14_ScrapePathChosen ==
    /\ plugin.env # Unset => plugin.metrics_endpoint = plugin.env
    /\ (plugin.env = Unset /\ plugin.arg # Unset) => plugin.metrics_endpoint = plugin.arg
    /\ (plugin.env = Unset /\ plugin.arg = Unset) => plugin.metrics_endpoint = DefaultEndpoint
    /\ app.installed = "installed" =>
          \E route \in ScrapeRoutes :
              /\ ScrapeRoutes = {route}
              /\ route.method = "GET"
              /\ route.rule = IF plugin.env # Unset THEN plugin.env
                              ELSE IF plugin.arg # Unset THEN plugin.arg
                              ELSE DefaultEndpoint
    /\ app.installed # "installed" => ScrapeRoutes = {}

\* METRICS_ENDPOINT is /stats, the constructor was given /prom, setup succeeded:
\* the scrape route is GET /stats, and a request of it was served by metrics_handler
C14_Witness ==
    /\ plugin.env = StatsEndpoint /\ plugin.arg = PromEndpoint
    /\ app.installed = "installed"
    /\ \E route \in ScrapeRoutes : route.rule = StatsEndpoint
    /\ \E r \in Requests : Done(r) /\ req[r].path = StatsEndpoint /\ req[r].render = "ok"

\* the labelled instruments the request hooks use
SeriesMetrics ==
    {"http_requests_total", "http_request_duration_seconds", "package_downloads_total",
     "package_uploads_total", "searches_total"}

\* request r has called labels() of http_requests_total
HttpLabelled(r) ==
    req[r].pc \in {"http_inc", "hist_labels", "observe", "classify", "event_inc", "done"}

\* the requests that have called labels() of an event counter with label values l
EventLabelled(metric, l) ==
    {r \in Requests : req[r].call.metric = metric /\ req[r].call.labels = l}

\* C15: when overlapping requests are the first to use one label-value
\* combination of a counter, one series results and every request's increment
\* lands on it (two complete requests of one series leave it at 2 or more,
\* exactly 2 when they are the only ones); a series exists only once a request
\* has used its label values, and an existing series is never removed.
C15_OneSeriesPerLabels ==
    /\ [](/\ DOMAIN collector.http_requests_total
               = {HttpSeries(r) : r \in {q \in Requests : HttpLabelled(q)}}
          /\ \A m \in {"package_downloads_total", "package_uploads_total", "searches_total"} :
               DOMAIN collector[m]
                  = {req[r].call.labels : r \in {q \in Requests : req[q].call.metric = m}}
          /\ \A r1, r2 \in Requests :
               (r1 # r2 /\ Done(r1) /\ Done(r2) /\ HttpSeries(r1) = HttpSeries(r2)) =>
                  /\ collector.http_requests_total[HttpSeries(r1)] >= 2
                  /\ (\A r \in Requests \ {r1, r2} : ~HttpLabelled(r) \/ HttpSeries(r) # HttpSeries(r1))
                        => collector.http_requests_total[HttpSeries(r1)] = 2
                  /\ req[r1].call # NoCall =>
                        collector[req[r1].call.metric][req[r1].call.labels]
                           = Cardinality({r \in EventLabelled(req[r1].call.metric,
                                                              req[r1].call.labels) : Done(r)}))
    /\ [][collector.created =>
            \A m \in SeriesMetrics : DOMAIN collector[m] \subseteq DOMAIN collector'[m]]_vars

\* two overlapping downloads of foo-1.0.0.tar.gz, the first requests of their
\* series, have both been counted by http_requests_total and both are inside
\* record_download after labels(): one download series exists, not yet incremented
C15_Witness ==
    /\ Cardinality(Requests) >= 2
    /\ req[1].pc = "event_inc" /\ req[2].pc = "event_inc"
    /\ req[1].call = record_download(Foo, FooFile) /\ req[2].call = req[1].call
    /\ collector.http_requests_total[HttpSeries(1)] = 2
    /\ collector.package_downloads_total = (<<Foo, FooFile>> :> 0)

\* the exposed count of bucket i of a histogram series: the observations that
\* are <= Buckets[i], all of them for i = Len(Buckets) + 1 (le = +Inf)
Cumulative(series, i) ==
    LET RECURSIVE Cum(_)
        Cum(k) == IF k = 0 THEN 0 ELSE series.buckets[k] + Cum(k - 1)
    IN  Cum(i)

\* the sum of the durations of a set of requests
Durations(R) ==
    LET RECURSIVE Sum(_)
        Sum(D) == IF D = {} THEN 0
                  ELSE LET r == CHOOSE x \in D : TRUE IN req[r].duration + Sum(D \ {r})
    IN  Sum(R)

Infinity == Len(Buckets) + 1

\* C16: an observation of v on a histogram series adds 1 to the cumulative count
\* of exactly the buckets whose upper bound is >= v, adds 1 to the +Inf bucket
\* and adds v to the sum, and touches no other series; so in every state the
\* cumulative counts of a series do not decrease with the bucket bound, its +Inf
\* bucket is the number of observations made on it and its sum is their sum.
C16_ObserveFillsBuckets ==
    /\ [][\A r \in Requests :
            (req[r].pc = "observe" /\ req'[r].pc = "classify") =>
               LET l == req[r].labels
                   v == req[r].duration
                   old == collector.http_request_duration_seconds
                   new == collector'.http_request_duration_seconds
               IN  /\ \A i \in 1..Len(Buckets) :
                        Cumulative(new[l], i) - Cumulative(old[l], i)
                           = IF Buckets[i] >= v THEN 1 ELSE 0
                   /\ Cumulative(new[l], Infinity) = Cumulative(old[l], Infinity) + 1
                   /\ new[l].sum = old[l].sum + v
                   /\ DOMAIN new = DOMAIN old
                   /\ \A k \in DOMAIN old \ {l} : new[k] = old[k]]_vars
    /\ [](\A l \in DOMAIN collector.http_request_duration_seconds :
            LET series == collector.http_request_duration_seconds[l]
                observed == {r \in Requests : HttpObserved(r) /\ HttpSeries(r) = l}
            IN  /\ \A i \in 1..Len(Buckets) :
                     Cumulative(series, i) <= Cumulative(series, i + 1)
                /\ Cumulative(series, Infinity) = Cardinality(observed)
                /\ series.sum = Durations(observed)
                /\ \A i \in 1..Len(Buckets) :
                     Cumulative(series, i)
                        = Cardinality({r \in observed : req[r].duration <= Buckets[i]}))

\* one series holds an observation of 10 ms, equal to the bound of the second
\* bucket, and one of 20 s, beyond the last bound: the buckets up to 5 ms hold
\* none, those from 10 ms on one, +Inf two, and the sum is their sum
C16_Witness ==
    \E l \in DOMAIN collector.http_request_duration_seconds :
        LET series == collector.http_request_duration_seconds[l]
        IN  /\ Cumulative(series, 1) = 0
            /\ Cumulative(series, 2) = 1
            /\ Cumulative(series, Len(Buckets)) = 1
            /\ Cumulative(series, Infinity) = 2
            /\ series.sum = 20010

NoneText == <<"n","o","n","e">>

\* C17: the server info record is set during setup, to the version, the name of
\* the backend type and the fallback URL of the host configuration ("none" when
\* it has no fallback URL), it is blank before, and no step after setup, of a
\* request hook or of a scrape, changes it.
C17_ServerInfoSetOnce ==
    /\ [](IF collector.created
          THEN collector.server_info
                  = [version |-> PypiVersion,
                     backend_type |-> app.config.backend_type,
                     fallback_url |-> IF app.config.fallback_url = None THEN NoneText
                                      ELSE app.config.fallback_url]
          ELSE collector.server_info = NoCollector.server_info)
    /\ [][collector.created => collector'.server_info = collector.server_info]_vars
    /\ [](\A r \in Requests :
            req[r].render = "ok" => req[r].body.samples.server_info = collector.server_info)

\* the host has no fallback URL; a scrape and its after_request hook are complete
\* and the record, as the scrape rendered it and as it stands, says "none"
C17_Witness ==
    /\ app.config = PypiConfig
    /\ \E r \in Requests :
         /\ Done(r) /\ req[r].render = "ok" /\ req[r].hook = "returned"
         /\ req[r].body.samples.server_info
               = [version |-> PypiVersion, backend_type |-> "CachingFileBackend",
                  fallback_url |-> NoneText]
    /\ collector.server_info.fallback_url = NoneText

\* the routes the host app has are those it registered itself
OnlyHostRoutes == \A route \in app.routes : route.callback = "host"

\* C18 as claimed: a setup that fails, on missing host config or on a route
\* conflict, leaves the host app as it was: no before_request hook, no
\* after_request hook and no route has been added.
C18_FailedSetupLeavesApp ==
    app.installed = "failed" =>
        /\ app.before_request = {}
        /\ app.after_request = {}
        /\ OnlyHostRoutes

\* C18 as amended: a setup that fails adds no route to the host app; when it
\* fails on missing host config it has added no hook and created no collector;
\* when it fails on a route conflict it has already added the before_request
\* and the after_request hook, and created the collector, when it raises.
C18_FailedSetupLeavesRoutes ==
    app.installed = "failed" =>
        /\ OnlyHostRoutes
        /\ ~app.config.present =>
              /\ app.before_request = {} /\ app.after_request = {}
              /\ ~collector.created
              /\ app.error = "Cannot find pypiserver config"
        /\ app.config.present =>
              /\ HostRouteConflict
              /\ app.before_request = {"_before_request"}
              /\ app.after_request = {"_after_request"}
              /\ collector.created
              /\ app.error = "Metrics endpoint overlaps with existing routes"

\* /stats is a route of the host and the scrape path; setup raised on the
\* conflict, and the host app has both hooks of the plugin and no scrape route
C18_Witness ==
    /\ app.installed = "failed"
    /\ plugin.metrics_endpoint = StatsEndpoint /\ HostRouteConflict
    /\ app.before_request = {"_before_request"}
    /\ app.after_request = {"_after_request"}
    /\ OnlyHostRoutes

\* the series of http_requests_total that counts the scrapes of response status 200
ScrapeSeries == <<"GET", plugin.metrics_endpoint, StatusStr(200)>>

\* request q is a scrape whose response status is 200: its handler rendered, or an
\* exception outside Exception left the handler and the response as it was bound
ScrapedOk(q) ==
    /\ req[q].method = "GET" /\ req[q].path = plugin.metrics_endpoint
    /\ req[q].render # "raised"
    /\ req[q].status = 200

\* C19: a scrape is an instrumented request whose after_request hook fires
\* after the handler has rendered: with requests served one after the other,
\* the body of a scrape reports for (GET, scrape path, 200) the number of
\* scrapes of response status 200 before it (k - 1 for the k-th), never its own,
\* and once its hook has counted it the counter stands one higher at least.
C19_ScrapeSeesEarlierScrapes ==
    \A r \in Requests :
        req[r].render = "ok" =>
            /\ Value(req[r].body.samples.http_requests_total, ScrapeSeries)
                  = Cardinality({q \in 1..(r - 1) : ScrapedOk(q)})
            /\ HttpCounted(r) =>
                  Value(collector.http_requests_total, ScrapeSeries)
                     >= Value(req[r].body.samples.http_requests_total, ScrapeSeries) + 1
            /\ ~HttpCounted(r) =>
                  Value(collector.http_requests_total, ScrapeSeries)
                     = Value(req[r].body.samples.http_requests_total, ScrapeSeries)

\* two scrapes were served one after the other: the body of the first reports
\* no scrape, the body of the second one, and the counter stands at 2
C19_Witness ==
    /\ Cardinality(Requests) >= 2
    /\ Done(1) /\ ScrapedOk(1) /\ Done(2) /\ ScrapedOk(2)
    /\ req[1].render = "ok" /\ req[2].render = "ok"
    /\ Value(req[1].body.samples.http_requests_total, ScrapeSeries) = 0
    /\ Value(req[2].body.samples.http_requests_total, ScrapeSeries) = 1
    /\ Value(collector.http_requests_total, ScrapeSeries) = 2

\* C20: in every state projects_total <= packages_total, and the two counts a
\* refresh stores are those of one list the backend enumerated, also when the
\* backend's package list changes between the two enumerations of the refresh.
C20_GaugesDescribeOneEnumeration ==
    /\ collector.projects_total <= collector.packages_total
    /\ \A r \in Requests :
         req[r].refresh = "ok" =>
            \E b \in BackendStates : <<req[r].package_count, req[r].project_count>> = CountsOf(b)

\* the counters whose record_ methods the plugin never calls
UnusedCounters ==
    {"package_upload_failures_total", "package_removals_total",
     "simple_index_requests_total", "auth_attempts_total", "errors_total"}

\* C21: no sequence of requests and scrapes records an upload failure, a package
\* removal, a simple-index request, an authentication attempt or an error: in
\* every state these five counters have no series, in the collector and in
\* every body a scrape has rendered, and no hook is about to use one.
C21_UnusedCountersEmpty ==
    /\ \A m \in UnusedCounters : DOMAIN collector[m] = {}
    /\ \A r \in Requests :
         /\ req[r].call.metric \notin UnusedCounters
         /\ req[r].render = "ok" =>
               \A m \in UnusedCounters : DOMAIN req[r].body.samples[m] = {}

\* a package removal answered with 200 and an upload answered with 404 were
\* served and counted as HTTP requests; neither recorded an event, and the removal
\* and upload-failure counters have no series
C21_Witness ==
    /\ \E r1, r2 \in Requests :
         /\ Done(r1) /\ req[r1].method = "POST" /\ req[r1].path = RootPath
         /\ req[r1].forms = RemovePkg /\ req[r1].status = 200
         /\ Done(r2) /\ req[r2].method = "POST" /\ req[r2].path = RootPath
         /\ req[r2].forms = FileUpload /\ req[r2].status = 404
         /\ req[r1].hook = "returned" /\ req[r2].hook = "returned"
    /\ Total(collector.http_requests_total) = 2
    /\ collector.package_removals_total = NoSeries
    /\ collector.package_upload_failures_total = NoSeries

====
